---- MODULE Spec2Model ----
(***************************************************************************)
(* Video upload backend (src/server.js): the bounded in-memory catalog     *)
(* `videos`, the WebSocket registry `clients`, the HTTP handlers for       *)
(* upload and delete, and broadcast.  The file holds two variants of the   *)
(* server: the local one (lines 1-205) and the Cloudinary one (206-370).   *)
(*                                                                         *)
(* Node runs every handler to completion on one thread, so each handler    *)
(* (with the multer stage that precedes it) is one action.                 *)
(*                                                                         *)
(* Abstractions: ids are the integer clock reading (toString is injective) *)
(* ; a stored file name `<ms>-<random><ext>` is a fresh token, the number  *)
(* of the upload; the record's name, url, size and timestamp are carried   *)
(* through unchanged by the code and are left out; a MIME type is the      *)
(* sequence of its tokens; the message passed to send is the event itself. *)
(***************************************************************************)
EXTENDS Integers, Sequences, FiniteSets, TLC

\* ---- program constants ----
MAX_CATALOG_SIZE == 20
FILE_SIZE_LIMIT == 104857600

\* ---- bounds of the model ----
MaxUploads == 22
MaxBurst == 3
MaxSameMs == 1
MaxDeletes == 1
MaxChannels == 2
MaxViews == 1

\* What the clients do in one run: how many files they upload, how many of
\* the uploads are handled in the millisecond of the one before, how many
\* records they delete, how many viewers connect, and how many of the
\* viewers (the first to connect) fetch the list before they connect and have
\* their view of the catalog followed, and whether a send may throw.  A
\* long run fills the catalog past its cap, one of them with a single viewer
\* followed from the start; a short one has every kind of request and viewer.
Workload(u, s, d, c, v, t) ==
    [uploads |-> u, sameMs |-> s, deletes |-> d, channels |-> c, views |-> v,
     throws |-> t]
Workloads ==
    { Workload(MaxUploads, MaxSameMs, 0, 0, 0, TRUE),
      Workload(MaxUploads, 0, MaxDeletes, 0, 0, TRUE),
      Workload(MaxUploads, 0, 0, MaxChannels, 0, TRUE),
      Workload(MaxUploads, 0, 0, 1, 1, FALSE),
      Workload(MaxBurst, MaxSameMs, MaxDeletes, MaxChannels, MaxViews, TRUE) }

Channels == 1..MaxChannels
Variants == {"local", "cloud"}
VideoMp4 == <<"video", "/", "mp4">>
TextPlain == <<"text", "/", "plain">>
AppVideo == <<"application", "/", "video">>
MimeTypes == {VideoMp4, TextPlain, AppVideo}
Sizes == {10, FILE_SIZE_LIMIT + 1}
NoId == 0
NoVideo == [id |-> NoId, filename |-> 0, mimetype |-> <<>>]
NoResponse == [status |-> 0, error |-> "", video |-> NoVideo]
NoFile == [mime |-> <<>>, size |-> 0]
NoRequest == [op |-> "none", file |-> NoFile, id |-> NoId]
\* a viewer that has not fetched the list
NoView == [listed |-> FALSE, ids |-> <<>>]
\* the file parts an upload request can carry
UploadFiles == {[mime |-> m, size |-> z] : m \in MimeTypes, z \in Sizes}

VARIABLES
    load,        \* the workload of this run
    variant,     \* which of the two servers of the file is running
    clock,       \* the last value Date.now() returned
    stored,      \* number of files handed to the storage so far
    videos,      \* local: the catalog, newest first
    files,       \* the storage: files under uploads/, or the provider's objects
    clients,     \* the registry, in insertion order (a JS Set)
    readyState,  \* readyState of each socket
    request,     \* the HTTP request or socket event the latest step handled
    response,    \* the HTTP response written by the latest step, if any
    sent,        \* the messages send accepted in the latest step
    failed,      \* the sockets whose send threw in the latest step
    unlinked,    \* the files fs.unlinkSync was called on in the latest step
    destroyed,   \* what uploader.destroy reported in the latest step, or "none"
    view,        \* per followed viewer: the ids of the list it shows
    sameMs,      \* number of uploads handled in the millisecond of the one before
    deletes      \* number of records removed by DELETE

vars == <<load, variant, clock, stored, videos, files, clients, readyState,
          request, response, sent, failed, unlinked, destroyed, view,
          sameMs, deletes>>

\* ---- helpers ----
StartsWith(s, p) == Len(s) >= Len(p) /\ SubSeq(s, 1, Len(p)) = p

\* fileFilter: file.mimetype.startsWith('video/')
fileFilter(mime) == StartsWith(mime, <<"video", "/">>)

SeqToSet(s) == {s[i] : i \in DOMAIN s}

\* Array.prototype.findIndex(v => v.id === videoId); 0 stands for -1
FindIndex(vs, id) ==
    IF \E i \in DOMAIN vs : vs[i].id = id
    THEN CHOOSE i \in DOMAIN vs : vs[i].id = id /\ \A j \in 1..(i-1) : vs[j].id # id
    ELSE 0

\* the last element removed whatever the index
SpliceLast(vs, i) == SubSeq(vs, 1, Len(vs) - 1)

\* Array.prototype.splice(i, 1)
Splice(vs, i) == SubSeq(vs, 1, i-1) \o SubSeq(vs, i+1, Len(vs))

\* fs.unlinkSync that removes nothing
unlinkSyncNothing(fs, names) == fs

\* fs.unlinkSync, for each of the named files in turn
unlinkSync(fs, names) == fs \ SeqToSet(names)

\* the first socket of the registry removed whatever the argument
SetDeleteFirst(cs, c) == IF cs = <<>> THEN cs ELSE Tail(cs)

\* Set.prototype.delete
SetDelete(cs, c) == SelectSeq(cs, LAMBDA x : x # c)

\* Set.prototype.add
SetAdd(cs, c) == IF c \in SeqToSet(cs) THEN cs ELSE Append(cs, c)

NewVideoEvent(v) == [type |-> "new_video", video |-> v, videoId |-> NoId]
VideoDeletedEvent(id) == [type |-> "video_deleted", video |-> NoVideo, videoId |-> id]

\* broadcast(data): clients.forEach in insertion order; send only to OPEN
\* sockets; a send that throws ends the loop and the exception propagates.
\* `bad` is the set of sockets whose send throws.
RECURSIVE BroadcastFrom(_, _, _, _)
BroadcastFrom(cs, rs, data, bad) ==
    IF cs = <<>> THEN [sent |-> <<>>, failed |-> {}]
    ELSE LET c == Head(cs) IN
         IF rs[c] = "OPEN"
         THEN IF c \in bad
              THEN [sent |-> <<>>, failed |-> {c}]
              ELSE LET rest == BroadcastFrom(Tail(cs), rs, data, bad) IN
                   [sent |-> <<[to |-> c, msg |-> data]>> \o rest.sent,
                    failed |-> rest.failed]
         ELSE BroadcastFrom(Tail(cs), rs, data, bad)

\* only the first registered socket served
broadcastToFirst(data, bad) ==
    BroadcastFrom(IF clients = <<>> THEN <<>> ELSE <<Head(clients)>>,
                  readyState, data, bad)

broadcast(data, bad) == BroadcastFrom(clients, readyState, data, bad)

Init ==
    /\ load \in Workloads
    /\ variant \in Variants
    /\ clock = 0
    /\ stored = 0
    /\ videos = <<>>
    /\ files = {}
    /\ clients = <<>>
    /\ readyState = [c \in Channels |-> "NEW"]
    /\ request = NoRequest
    /\ response = NoResponse
    /\ sent = <<>>
    /\ failed = {}
    /\ unlinked = <<>>
    /\ destroyed = "none"
    /\ view = [c \in Channels |-> NoView]
    /\ sameMs = 0
    /\ deletes = 0

\* ---- the HTTP layer ----
Response(status, error, video) == [status |-> status, error |-> error, video |-> video]

UploadRequest(file) == [op |-> "upload", file |-> file, id |-> NoId]
DeleteRequest(videoId) == [op |-> "delete", file |-> NoFile, id |-> videoId]

NoError == [multer |-> FALSE, code |-> "", message |-> ""]
PlainError(msg) == [multer |-> FALSE, code |-> "", message |-> msg]
MulterError(code) == [multer |-> TRUE, code |-> code, message |-> code]

\* an error middleware that answers the size limit only
errorMiddlewareSilent(error) ==
    IF error.multer /\ error.code = "LIMIT_FILE_SIZE"
    THEN Response(400, "File too large. Maximum size is 100MB.", NoVideo)
    ELSE NoResponse

\* the error handling middleware of the local server
errorMiddleware(error) ==
    IF error.multer /\ error.code = "LIMIT_FILE_SIZE"
    THEN Response(400, "File too large. Maximum size is 100MB.", NoVideo)
    ELSE Response(500, "Internal server error", NoVideo)

\* the cloud server installs no error middleware: Express's own handler
\* answers an error that carries no status with 500
defaultErrorHandler(error) == Response(500, error.message, NoVideo)

\* upload.single('video') of the local server: fileFilter when the file part
\* starts, the size limit while it streams, then the write to uploads/.
\* Gives the error passed to next(), or none and whether req.file is set.
uploadLocal(file, writeFails) ==
    IF file = NoFile THEN [error |-> NoError, stored |-> FALSE]
    ELSE IF ~fileFilter(file.mime)
         THEN [error |-> PlainError("Only video files are allowed"), stored |-> FALSE]
    ELSE IF file.size > FILE_SIZE_LIMIT
         THEN [error |-> MulterError("LIMIT_FILE_SIZE"), stored |-> FALSE]
    ELSE IF writeFails
         THEN [error |-> PlainError("EIO"), stored |-> FALSE]
    ELSE [error |-> NoError, stored |-> TRUE]

\* upload.single('video') of the cloud server: no fileFilter; the provider
\* takes or refuses the stream.
uploadCloud(file, providerAccepts) ==
    IF file = NoFile THEN [error |-> NoError, stored |-> FALSE]
    ELSE IF file.size > FILE_SIZE_LIMIT
         THEN [error |-> MulterError("LIMIT_FILE_SIZE"), stored |-> FALSE]
    ELSE IF ~providerAccepts
         THEN [error |-> PlainError("provider"), stored |-> FALSE]
    ELSE [error |-> NoError, stored |-> TRUE]

\* the new record put at the tail
UnshiftAtEnd(vs, v) == Append(vs, v)

\* videos.unshift(videoData)
Unshift(vs, v) == <<v>> \o vs

\* the cap tested one record late
OverflowsLate(vs) == Len(vs) > MAX_CATALOG_SIZE + 1

\* videos.length > 20
Overflows(vs) == Len(vs) > MAX_CATALOG_SIZE

\* two records dropped by one eviction
PopTwo(vs) == SubSeq(vs, 1, Len(vs) - 2)

\* videos.pop(): the array without its last element
Pop(vs) == SubSeq(vs, 1, Len(vs) - 1)

\* GET /api/videos of the local server: res.json(videos)
GetVideos == videos

\* the ids of a list of records, in order
Ids(vs) == [i \in DOMAIN vs |-> vs[i].id]

\* sort_by('created_at', 'desc'): public ids are numbered in upload order
RECURSIVE Descending(_)
Descending(S) ==
    IF S = {} THEN <<>>
    ELSE LET m == CHOOSE x \in S : \A y \in S : y <= x IN
         <<m>> \o Descending(S \ {m})

\* GET /api/videos of the cloud server: the ids of the search result
MAX_RESULTS == 30
CloudSearch ==
    LET all == Descending(files) IN
    SubSeq(all, 1, IF Len(all) < MAX_RESULTS THEN Len(all) ELSE MAX_RESULTS)

\* the ids of the list GET /api/videos answers with
ListIds == IF variant = "local" THEN Ids(GetVideos) ELSE CloudSearch

\* ---- the viewer ----
\* a viewer applies an event to the list it shows: a new_video adds the
\* record at the head, a video_deleted removes the records with the id
Apply(ids, msg) ==
    IF msg.type = "new_video"
    THEN <<msg.video.id>> \o ids
    ELSE SelectSeq(ids, LAMBDA x : x # msg.videoId)

RECURSIVE ApplyAll(_, _)
ApplyAll(ids, msgs) ==
    IF msgs = <<>> THEN ids ELSE ApplyAll(Apply(ids, Head(msgs).msg), Tail(msgs))

\* the views after the messages `msgs` are delivered
Deliver(vw, msgs) ==
    [c \in Channels |->
        IF vw[c].listed
        THEN [listed |-> TRUE,
              ids |-> ApplyAll(vw[c].ids, SelectSeq(msgs, LAMBDA m : m.to = c))]
        ELSE vw[c]]

\* what one step writes: the request it handled and its outputs
Outputs(req, resp, msgs, thrown, unlinks, result) ==
    /\ request' = req
    /\ response' = resp
    /\ sent' = msgs
    /\ failed' = thrown
    /\ unlinked' = unlinks
    /\ destroyed' = result

\* a request that may broadcast: the followed viewers apply what they are sent
OutputWith(req, resp, msgs, thrown, unlinks, result) ==
    /\ Outputs(req, resp, msgs, thrown, unlinks, result)
    /\ view' = Deliver(view, msgs)

\* a step that does not call uploader.destroy
Output(req, resp, msgs, thrown, unlinks) ==
    OutputWith(req, resp, msgs, thrown, unlinks, "none")

\* ---- local server ----
\* The handler of POST /api/upload-video with req.file set: `now` is
\* Date.now(), fname the stored file.  Gives the catalog, the storage and the
\* outputs it leaves.  The catch block answers 500 for any exception.
UploadHandler(now, fname, mime, unlinkThrows, bad) ==
    LET videoData == [id |-> now, filename |-> fname, mimetype |-> mime]
        vs1 == Unshift(videos, videoData)
        fs1 == files \cup {fname}
        over == Overflows(vs1)
        oldVideo == vs1[Len(vs1)]
        vs2 == IF over THEN Pop(vs1) ELSE vs1
        doUnlink == over /\ oldVideo.filename \in fs1
        unlinks == IF doUnlink THEN <<oldVideo.filename>> ELSE <<>>
        b == broadcast(NewVideoEvent(videoData), bad)
    IN  IF doUnlink /\ unlinkThrows
        THEN [videos |-> vs2, files |-> fs1, sent |-> <<>>, failed |-> {},
              unlinked |-> unlinks,
              response |-> Response(500, "Failed to upload video", NoVideo)]
        ELSE [videos |-> vs2, files |-> unlinkSync(fs1, unlinks), sent |-> b.sent,
              failed |-> b.failed, unlinked |-> unlinks,
              response |-> IF b.failed # {}
                           THEN Response(500, "Failed to upload video", NoVideo)
                           ELSE Response(200, "", videoData)]

\* POST /api/upload-video answered without a file stored: no file part
\* (the handler answers 400) or an error of multer (the error middleware)
LocalUploadRefused(file, writeFails) ==
    LET m == uploadLocal(file, writeFails) IN
    /\ variant = "local"
    /\ ~m.stored
    /\ Output(UploadRequest(file),
              IF m.error = NoError
              THEN Response(400, "No video file uploaded", NoVideo)
              ELSE errorMiddleware(m.error),
              <<>>, {}, <<>>)
    /\ UNCHANGED <<load, variant, clock, stored, videos, files, clients, readyState,
                   sameMs, deletes>>

\* POST /api/upload-video with a file multer stored
LocalUpload(file, elapsed, unlinkThrows, bad) ==
    LET now == clock + elapsed
        fname == stored + 1
        h == UploadHandler(now, fname, file.mime, unlinkThrows, bad)
    IN
    /\ variant = "local"
    /\ uploadLocal(file, FALSE).stored
    /\ stored < load.uploads
    /\ elapsed = 0 => (clock > 0 /\ sameMs < load.sameMs)
    /\ clock' = now
    /\ sameMs' = IF elapsed = 0 THEN sameMs + 1 ELSE sameMs
    /\ stored' = stored + 1
    /\ videos' = h.videos
    /\ files' = h.files
    /\ Output(UploadRequest(file), h.response, h.sent, h.failed, h.unlinked)
    /\ UNCHANGED <<load, variant, clients, readyState, deletes>>

\* DELETE /api/videos/:id for an id findIndex does not find
LocalDeleteNotFound(videoId) ==
    /\ variant = "local"
    /\ FindIndex(videos, videoId) = 0
    /\ Output(DeleteRequest(videoId), Response(404, "Video not found", NoVideo),
              <<>>, {}, <<>>)
    /\ UNCHANGED <<load, variant, clock, stored, videos, files, clients, readyState,
                   sameMs, deletes>>

\* DELETE /api/videos/:id for an id findIndex finds.  An exception of
\* unlinkSync or of send leaves the handler and reaches the error middleware.
\* a delete handler that broadcasts before it unlinks and splices
LocalDeleteBroadcastFirst(videoId, unlinkThrows, bad) ==
    LET videoIndex == FindIndex(videos, videoId)
        video == videos[videoIndex]
        doUnlink == video.filename \in files
        unlinks == IF doUnlink THEN <<video.filename>> ELSE <<>>
        b == broadcast(VideoDeletedEvent(videoId), bad)
    IN
    /\ variant = "local"
    /\ videoIndex # 0
    /\ deletes < load.deletes
    /\ IF b.failed # {} \/ (doUnlink /\ unlinkThrows)
       THEN /\ Output(DeleteRequest(videoId), errorMiddleware(PlainError("EPERM")),
                      b.sent, b.failed, IF b.failed # {} THEN <<>> ELSE unlinks)
            /\ UNCHANGED <<videos, files, deletes>>
       ELSE /\ files' = unlinkSync(files, unlinks)
            /\ videos' = Splice(videos, videoIndex)
            /\ deletes' = deletes + 1
            /\ Output(DeleteRequest(videoId), Response(200, "", NoVideo),
                      b.sent, b.failed, unlinks)
    /\ UNCHANGED <<load, variant, clock, stored, clients, readyState, sameMs>>

LocalDelete(videoId, unlinkThrows, bad) ==
    LET videoIndex == FindIndex(videos, videoId)
        video == videos[videoIndex]
        doUnlink == video.filename \in files
        unlinks == IF doUnlink THEN <<video.filename>> ELSE <<>>
        b == broadcast(VideoDeletedEvent(videoId), bad)
    IN
    /\ variant = "local"
    /\ videoIndex # 0
    /\ deletes < load.deletes
    /\ IF doUnlink /\ unlinkThrows
       THEN /\ Output(DeleteRequest(videoId), errorMiddleware(PlainError("EPERM")),
                      <<>>, {}, unlinks)
            /\ UNCHANGED <<videos, files, deletes>>
       ELSE /\ files' = unlinkSync(files, unlinks)
            /\ videos' = Splice(videos, videoIndex)
            /\ deletes' = deletes + 1
            /\ Output(DeleteRequest(videoId),
                      IF b.failed # {}
                      THEN errorMiddleware(PlainError("send"))
                      ELSE Response(200, "", NoVideo),
                      b.sent, b.failed, unlinks)
    /\ UNCHANGED <<load, variant, clock, stored, clients, readyState, sameMs>>

\* ---- cloud server ----
\* POST /api/upload-video answered without an object stored at the provider
CloudUploadRefused(file, providerAccepts) ==
    LET m == uploadCloud(file, providerAccepts) IN
    /\ variant = "cloud"
    /\ ~m.stored
    /\ Output(UploadRequest(file),
              IF m.error = NoError
              THEN Response(400, "No video file uploaded", NoVideo)
              ELSE defaultErrorHandler(m.error),
              <<>>, {}, <<>>)
    /\ UNCHANGED <<load, variant, clock, stored, videos, files, clients, readyState,
                   sameMs, deletes>>

\* POST /api/upload-video with a file the provider stored; its public_id is
\* req.file.filename
CloudUpload(file, bad) ==
    LET publicId == stored + 1
        videoData == [id |-> publicId, filename |-> 0, mimetype |-> file.mime]
        b == broadcast(NewVideoEvent(videoData), bad)
    IN
    /\ variant = "cloud"
    /\ uploadCloud(file, TRUE).stored
    /\ stored < load.uploads
    /\ stored' = stored + 1
    /\ files' = files \cup {publicId}
    /\ Output(UploadRequest(file),
              IF b.failed # {}
              THEN Response(500, "Failed to upload video", NoVideo)
              ELSE Response(200, "", videoData),
              b.sent, b.failed, <<>>)
    /\ UNCHANGED <<load, variant, clock, videos, clients, readyState, sameMs, deletes>>

\* what cloudinary.uploader.destroy can report for an id: "throw" is a
\* rejected promise, "error" any result other than 'ok' and 'not found'
DestroyResults(videoId) ==
    (IF videoId \in files THEN {"ok"} ELSE {"not found"}) \cup {"error", "throw"}

\* DELETE /api/videos/:id(*)
CloudDelete(videoId, result, bad) ==
    LET b == broadcast(VideoDeletedEvent(videoId), bad) IN
    /\ variant = "cloud"
    /\ result \in DestroyResults(videoId)
    /\ result = "ok" => deletes < load.deletes
    /\ files' = IF result = "ok" THEN files \ {videoId} ELSE files
    /\ deletes' = IF result = "ok" THEN deletes + 1 ELSE deletes
    /\ IF result = "ok" \/ result = "not found"
       THEN OutputWith(DeleteRequest(videoId),
                       IF b.failed # {}
                       THEN Response(500, "Failed to delete video", NoVideo)
                       ELSE Response(200, "", NoVideo),
                       b.sent, b.failed, <<>>, result)
       ELSE OutputWith(DeleteRequest(videoId),
                       Response(500, "Failed to delete video", NoVideo),
                       <<>>, {}, <<>>, result)
    /\ UNCHANGED <<load, variant, clock, stored, videos, clients, readyState, sameMs>>

\* ---- the WebSocket registry (the same code in both servers) ----
\* a socket event the latest step handled: it writes no HTTP response and
\* its handler sends nothing
SocketEvent(kind, c) == [op |-> kind, file |-> NoFile, id |-> c]
\* a connection handler that sends the newest record to the socket
SocketOutputReplay(kind, c) ==
    LET replay == IF kind = "connection" /\ videos # <<>>
                  THEN <<[to |-> c, msg |-> NewVideoEvent(Head(videos))]>>
                  ELSE <<>>
    IN
    /\ Outputs(SocketEvent(kind, c), NoResponse, replay, {}, <<>>, "none")
    /\ view' = IF kind = "connection" THEN Deliver(view, replay)
               ELSE [view EXCEPT ![c] = NoView]

SocketOutput(kind, c) ==
    /\ Outputs(SocketEvent(kind, c), NoResponse, <<>>, {}, <<>>, "none")
    /\ view' = IF kind = "connection"
               THEN view
               ELSE [view EXCEPT ![c] = NoView]   \* the viewer leaves

\* GET /api/videos by a followed viewer that has not connected yet: the
\* viewers followed are among those that arrive during the first MaxBurst
\* uploads.  The cloud server answers 500 when the search fails.
ListRequest(c) == [op |-> "list", file |-> NoFile, id |-> c]
ListVideos(c, searchFails) ==
    /\ c <= load.views
    /\ stored <= MaxBurst
    /\ readyState[c] = "NEW"
    /\ \A d \in 1..(c-1) : readyState[d] # "NEW"
    /\ ~view[c].listed
    /\ searchFails => variant = "cloud"
    /\ Outputs(ListRequest(c),
               IF searchFails THEN Response(500, "Failed to fetch videos", NoVideo)
               ELSE Response(200, "", NoVideo),
               <<>>, {}, <<>>, "none")
    /\ view' = IF searchFails THEN view
               ELSE [view EXCEPT ![c] = [listed |-> TRUE, ids |-> ListIds]]
    /\ UNCHANGED <<load, variant, clock, stored, videos, files, clients, readyState,
                   sameMs, deletes>>

\* wss.on('connection'): the socket is OPEN when the event fires.  Sockets
\* are numbered in the order they connect.
Connection(c) ==
    /\ readyState[c] = "NEW"
    /\ c <= load.channels
    /\ \A d \in 1..(c-1) : readyState[d] # "NEW"
    /\ readyState' = [readyState EXCEPT ![c] = "OPEN"]
    /\ clients' = SetAdd(clients, c)
    /\ SocketOutput("connection", c)
    /\ UNCHANGED <<load, variant, clock, stored, videos, files, sameMs, deletes>>

\* the closing handshake starts: readyState is CLOSING, no event yet
StartClosing(c) ==
    /\ readyState[c] = "OPEN"
    /\ readyState' = [readyState EXCEPT ![c] = "CLOSING"]
    /\ SocketOutput("closing", c)
    /\ UNCHANGED <<load, variant, clock, stored, videos, files, clients, sameMs, deletes>>

\* ws.on('close')
OnClose(c) ==
    /\ readyState[c] # "NEW"
    /\ readyState' = [readyState EXCEPT ![c] = "CLOSED"]
    /\ clients' = SetDelete(clients, c)
    /\ SocketOutput("close", c)
    /\ UNCHANGED <<load, variant, clock, stored, videos, files, sameMs, deletes>>

\* ws.on('error'): the library closes a socket that errored
OnError(c) ==
    /\ readyState[c] # "NEW"
    /\ readyState' = [readyState EXCEPT ![c] =
                         IF readyState[c] = "OPEN" THEN "CLOSING" ELSE readyState[c]]
    /\ clients' = SetDelete(clients, c)
    /\ SocketOutput("error", c)
    /\ UNCHANGED <<load, variant, clock, stored, videos, files, sameMs, deletes>>

\* ---- inputs ----
\* the sockets whose send throws during one broadcast: none, or one of the
\* registered OPEN ones (the loop ends at the first that throws).  A send
\* that fails after it returned shows as the socket's error event: OnError.
SendFailures ==
    {{}} \cup {{c} : c \in {d \in SeqToSet(clients) :
                                load.throws /\ readyState[d] = "OPEN"}}

\* ids a DELETE can name: those in the catalog (or at the provider) and one
\* that is in neither
DeleteIds == {videos[i].id : i \in DOMAIN videos} \cup files \cup {NoId}

Next ==
    \/ \E file \in UploadFiles \cup {NoFile}, writeFails \in BOOLEAN :
          LocalUploadRefused(file, writeFails)
    \/ \E file \in UploadFiles, elapsed \in {0, 1}, unlinkThrows \in BOOLEAN,
          bad \in SendFailures :
          LocalUpload(file, elapsed, unlinkThrows, bad)
    \/ \E videoId \in DeleteIds : LocalDeleteNotFound(videoId)
    \/ \E videoId \in DeleteIds, unlinkThrows \in BOOLEAN, bad \in SendFailures :
          LocalDelete(videoId, unlinkThrows, bad)
    \/ \E file \in UploadFiles \cup {NoFile}, providerAccepts \in BOOLEAN :
          CloudUploadRefused(file, providerAccepts)
    \/ \E file \in UploadFiles, bad \in SendFailures :
          CloudUpload(file, bad)
    \/ \E videoId \in DeleteIds, result \in {"ok", "not found", "error", "throw"},
          bad \in SendFailures :
          CloudDelete(videoId, result, bad)
    \/ \E c \in Channels, searchFails \in BOOLEAN : ListVideos(c, searchFails)
    \/ \E c \in Channels : Connection(c)
    \/ \E c \in Channels : StartClosing(c)
    \/ \E c \in Channels : OnClose(c)
    \/ \E c \in Channels : OnError(c)

Spec == Init /\ [][Next]_vars

\* ---- properties ----
IsVideoMime(mime) == StartsWith(mime, <<"video", "/">>)
Registered == SeqToSet(clients)
SentTo(msgs, c) == {k \in DOMAIN msgs : msgs[k].to = c}

\* a step in which the local upload handler ran with a stored file
LocalHandlerStep == variant = "local" /\ stored' = stored + 1

\* C1: local server: in every state between requests the catalog holds at
\* most 20 records.
CatalogBounded == variant = "local" => Len(videos) <= MAX_CATALOG_SIZE

CatalogBoundedWitness ==
    variant = "local" /\ Len(videos) = MAX_CATALOG_SIZE /\ stored > MAX_CATALOG_SIZE

\* C2: local server: after more than 20 uploads were inserted and no record
\* was deleted, GET /api/videos returns exactly 20 records, the 20 inserted
\* last, newest first: position i holds the (N-i+1)th upload.
MostRecentTwenty ==
    (variant = "local" /\ deletes = 0 /\ stored > MAX_CATALOG_SIZE) =>
        /\ Len(GetVideos) = MAX_CATALOG_SIZE
        /\ \A i \in 1..MAX_CATALOG_SIZE : GetVideos[i].filename = stored - i + 1
        /\ \A i \in 1..(MAX_CATALOG_SIZE - 1) : GetVideos[i].id >= GetVideos[i+1].id

MostRecentTwentyWitness ==
    /\ variant = "local" /\ deletes = 0 /\ stored > MAX_CATALOG_SIZE + 1
    /\ request.op = "upload" /\ response.status = 200
    /\ GetVideos[1] = response.video

\* C3: local server: an upload handled when the catalog holds 20 records
\* removes exactly one record, the one at the tail, and that record's file is
\* released: unlinkSync is called once, on it, and the file is gone; an upload
\* handled when the catalog holds fewer removes no record and no file.
EvictsTailAndReleasesFile ==
    [][LocalHandlerStep =>
         IF Len(videos) = MAX_CATALOG_SIZE
         THEN /\ Len(videos') = MAX_CATALOG_SIZE
              /\ Tail(videos') = SubSeq(videos, 1, MAX_CATALOG_SIZE - 1)
              /\ unlinked' = <<videos[MAX_CATALOG_SIZE].filename>>
              /\ files \ files' = {videos[MAX_CATALOG_SIZE].filename}
         ELSE /\ Tail(videos') = videos
              /\ unlinked' = <<>>
              /\ files \subseteq files']_vars

\* C4 as stated: local server: DELETE for an id in the catalog removes that
\* record, shrinks the catalog by one and keeps the order of the others;
\* DELETE for an id not in the catalog answers 404 and leaves the catalog.
RemovedAt(i) ==
    /\ Len(videos') = Len(videos) - 1
    /\ \A j \in 1..Len(videos') : videos'[j] = videos[IF j < i THEN j ELSE j + 1]

RemovedById(id) ==
    \E i \in DOMAIN videos : videos[i].id = id /\ RemovedAt(i)

LocalDeleteStep == variant = "local" /\ request'.op = "delete"

IdPresent(id) == \E i \in DOMAIN videos : videos[i].id = id

DeleteRemovesPresentId ==
    [][LocalDeleteStep =>
         IF IdPresent(request'.id)
         THEN RemovedById(request'.id)
         ELSE response'.status = 404 /\ videos' = videos]_vars

\* C4 amended: local server: DELETE for an id in the catalog whose file is
\* deleted without an exception removes that record, shrinks the catalog by
\* one and keeps the order of the others; when deleting the file throws, the
\* request is answered 500 and the catalog and the files stay as they were;
\* DELETE for an id not in the catalog answers 404 and leaves the catalog.
DeleteRemovesUnlessUnlinkThrows ==
    [][LocalDeleteStep =>
         IF IdPresent(request'.id)
         THEN /\ response'.status \in {200, 500}
              /\ \/ RemovedById(request'.id) /\ files \ files' = SeqToSet(unlinked')
                 \/ /\ response'.status = 500
                    /\ videos' = videos /\ files' = files
                    /\ unlinked' # <<>> /\ sent' = <<>>
              /\ response'.status = 200 => RemovedById(request'.id)
         ELSE response'.status = 404 /\ videos' = videos /\ files' = files]_vars

DeleteRemovesWitness ==
    /\ variant = "local" /\ request.op = "delete" /\ response.status = 200
    /\ Len(videos) >= 2 /\ videos[1].filename > videos[2].filename + 1

\* C5: local server: no two records of the catalog have the same id.
UniqueIds ==
    variant = "local" =>
        \A i, j \in DOMAIN videos : i # j => videos[i].id # videos[j].id

\* C6: a broadcast in which a registered socket's send fails removes that
\* socket from the registry, and the request that broadcast still answers
\* with its success response.
FailingChannelDropped ==
    failed # {} => (failed \cap Registered = {} /\ response.status = 200)

\* C7: for every successful upload, every socket registered and OPEN at the
\* broadcast is sent exactly one message for it, a new_video event whose
\* video.id is the video.id of the HTTP response.
EveryOpenViewerNotifiedOnce ==
    [][(request'.op = "upload" /\ response'.status = 200) =>
         \A c \in Registered :
            readyState[c] = "OPEN" =>
               /\ Cardinality(SentTo(sent', c)) = 1
               /\ \A k \in SentTo(sent', c) :
                     /\ sent'[k].msg.type = "new_video"
                     /\ sent'[k].msg.video.id = response'.video.id]_vars

EveryOpenViewerNotifiedWitness ==
    /\ request.op = "upload" /\ response.status = 200
    /\ Cardinality({c \in Registered : readyState[c] = "OPEN"}) >= 2
    /\ Len(sent) >= 2

\* C8: local server: after a DELETE of an id of the catalog answers 200, GET
\* /api/videos returns no record with that id, and every socket registered
\* and OPEN has been sent a video_deleted event with that id.
DeletedIdGone ==
    (variant = "local" /\ request.op = "delete" /\ response.status = 200) =>
        /\ \A i \in DOMAIN GetVideos : GetVideos[i].id # request.id
        /\ \A c \in Registered :
              readyState[c] = "OPEN" =>
                 \E k \in SentTo(sent, c) :
                    /\ sent[k].msg.type = "video_deleted"
                    /\ sent[k].msg.videoId = request.id

\* C9: an upload whose file has a non-video MIME type is rejected with an
\* error before storage: the catalog is unchanged, no file is stored and no
\* event is broadcast.
NonVideoRejectedBeforeStorage ==
    [][(request'.op = "upload" /\ request'.file # NoFile
          /\ ~IsVideoMime(request'.file.mime)) =>
         /\ response'.status >= 400
         /\ videos' = videos
         /\ files' = files
         /\ sent' = <<>>]_vars

\* C10: every validation failure of an upload (no file, non-video MIME type,
\* file larger than 100 MiB) is answered with 400, none with a 5xx status.
ValidationFailure(req) ==
    \/ req.file = NoFile
    \/ ~IsVideoMime(req.file.mime)
    \/ req.file.size > FILE_SIZE_LIMIT

ValidationAnswered400 ==
    (request.op = "upload" /\ ValidationFailure(request)) => response.status = 400

\* a step of the local server in which a storage operation failed: the
\* write of the uploaded file, or an unlinkSync that left its file in place
WriteFailedStep ==
    /\ request'.op = "upload" /\ request'.file # NoFile
    /\ IsVideoMime(request'.file.mime) /\ request'.file.size <= FILE_SIZE_LIMIT
    /\ stored' = stored

\* fs.unlinkSync was called and threw: the request is answered 500 and the
\* broadcast was never reached, so no send threw
UnlinkFailedStep == unlinked' # <<>> /\ response'.status = 500 /\ failed' = {}

StorageFailedStep ==
    /\ variant = "local" /\ request'.op \in {"upload", "delete"}
    /\ WriteFailedStep \/ UnlinkFailedStep

\* C11: local server: when a storage operation of an upload or a delete
\* fails (writing the new file, deleting the evicted record's file, deleting
\* the file of the record being removed), the catalog is left as it was.
StorageFailureLeavesCatalog ==
    [][StorageFailedStep => videos' = videos]_vars

Names(vs) == {vs[i].filename : i \in DOMAIN vs}
Min(a, b) == IF a < b THEN a ELSE b

\* C12: local server: whatever the order in which the handlers of the
\* arriving uploads and deletes run, each request's catalog change is whole:
\* an upload puts its record at the head and drops at most the tail, a delete
\* removes one record or none, nothing else changes the catalog, a record
\* that left the catalog never returns, and with no delete the catalog holds
\* min(k, 20) records after k inserting uploads.
CatalogMutationsAtomic ==
    [][/\ variant = "local" =>
            /\ IF LocalHandlerStep
               THEN /\ Head(videos').filename = stored'
                    /\ \/ Tail(videos') = videos
                       \/ /\ Len(videos) = MAX_CATALOG_SIZE
                          /\ Tail(videos') = SubSeq(videos, 1, Len(videos) - 1)
               ELSE IF request'.op = "delete"
               THEN videos' = videos \/ RemovedById(request'.id)
               ELSE videos' = videos
            /\ \A f \in 1..stored : f \notin Names(videos) => f \notin Names(videos')
            /\ deletes' = 0 => Len(videos') = Min(stored', MAX_CATALOG_SIZE)]_vars

CatalogMutationsAtomicWitness ==
    /\ variant = "local" /\ deletes = 1 /\ stored > MAX_CATALOG_SIZE + 1
    /\ request.op = "upload" /\ response.status = 200
    /\ Len(videos) = MAX_CATALOG_SIZE

SocketGoneStep == request'.op \in {"close", "error"}

\* C13: once the close or the error event of a socket is handled the socket
\* is not in the registry and no broadcast reaches it any more (it is never
\* registered again and messages go to registered sockets only); handling a
\* further close or error event of that socket leaves the registry as it is,
\* and no such event removes another socket.
UnregisterIdempotent ==
    [][/\ SocketGoneStep =>
            /\ request'.id \notin SeqToSet(clients')
            /\ clients' = SelectSeq(clients, LAMBDA x : x # request'.id)
            /\ request'.id \notin Registered => clients' = clients
       /\ \A c \in Channels :
            (readyState[c] # "NEW" /\ c \notin Registered) =>
               /\ c \notin SeqToSet(clients')
               /\ SentTo(sent', c) = {}]_vars

\* an error event handled after the close event of the same socket (only the
\* close event makes a socket CLOSED), with another socket still registered
UnregisterIdempotentWitness ==
    /\ request.op = "error"
    /\ readyState[request.id] = "CLOSED"
    /\ Registered # {} /\ request.id \notin Registered

SentDeletedTo(msgs, cs, id) ==
    /\ \A c \in cs : Cardinality(SentTo(msgs, c)) = 1
    /\ \A k \in DOMAIN msgs :
          msgs[k].to \in cs /\ msgs[k].msg = VideoDeletedEvent(id)

\* C15: cloud server: a DELETE whose destroy call reports 'ok' or 'not found'
\* answers 200 and broadcasts one video_deleted event with the id (one
\* message to every registered OPEN socket); a DELETE whose destroy call
\* reports anything else or throws answers 500 and sends nothing.
CloudDeleteAnswers ==
    (variant = "cloud" /\ request.op = "delete") =>
        IF destroyed \in {"ok", "not found"}
        THEN /\ response.status = 200
             /\ SentDeletedTo(sent, {c \in Registered : readyState[c] = "OPEN"},
                              request.id)
        ELSE response.status = 500 /\ sent = <<>>

\* the event a request step reports: the record its response carries, or
\* the id it was asked to delete
EventOf(req, resp) ==
    IF req.op = "upload" THEN NewVideoEvent(resp.video)
    ELSE VideoDeletedEvent(req.id)

\* C16: registration replays nothing: the connection handler sends no
\* message, and every message sent is the event of the request handled in
\* that very step, so the event of a request that completed before a viewer
\* registered is never sent to that viewer.
NoReplayOnRegistration ==
    [][/\ request'.op \notin {"upload", "delete"} => sent' = <<>>
       /\ \A k \in DOMAIN sent' :
             /\ sent'[k].to \in Registered
             /\ response'.status = 200 =>
                   sent'[k].msg = EventOf(request', response')
             /\ sent'[k].msg.type =
                   (IF request'.op = "upload" THEN "new_video" ELSE "video_deleted")
       /\ request'.op = "connection" => view' = view]_vars

\* the list-then-subscribe race: a viewer has just been registered, the list
\* it fetched before is no longer the list GET /api/videos answers with, and
\* it has been sent nothing
ListThenSubscribeRace ==
    /\ request.op = "connection"
    /\ request.id \in Registered
    /\ view[request.id].listed
    /\ view[request.id].ids # ListIds
    /\ sent = <<>>

\* the latest step handled an upload or a delete request and failed
FailedRequest ==
    request.op \in {"upload", "delete"} /\ response.status # 200

UploadAnswered200 == Next /\ request'.op = "upload" /\ response'.status = 200
DeleteAnswered == Next /\ request'.op = "delete" /\ response'.status # 0
RefusalAnswered == Next /\ request'.op = "upload" /\ response'.status = 400

\* C17: every upload or delete request handled is answered with one
\* response (200, 400, 404 or 500), and after a request that failed the
\* server still handles requests: an upload is stored and answered 200 (while
\* the run has uploads left), a bad upload is answered 400, a delete is
\* answered.
EveryRequestAnswered ==
    /\ request.op \in {"upload", "delete"} =>
          response.status \in {200, 400, 404, 500}
    /\ FailedRequest =>
          /\ stored < load.uploads => ENABLED UploadAnswered200
          /\ ENABLED RefusalAnswered
          /\ ENABLED DeleteAnswered

\* a request handled after a failed one: the response of an upload that was
\* stored while an earlier unlinkSync failure left its file behind
EveryRequestAnsweredWitness ==
    /\ variant = "local" /\ request.op = "upload" /\ response.status = 200
    /\ files # Names(videos)

\* C18: local server: whenever a socket is sent new_video, the record is at
\* the head of the catalog, the catalog is within its cap and the record an
\* eviction dropped and its file are gone; whenever a socket is sent
\* video_deleted, the record has been removed from the catalog and its file
\* deleted.
BroadcastAfterMutation ==
    [][variant = "local" =>
         \A k \in DOMAIN sent' :
            IF sent'[k].msg.type = "new_video"
            THEN /\ videos' # <<>> /\ Head(videos') = sent'[k].msg.video
                 /\ Len(videos') <= MAX_CATALOG_SIZE
                 /\ Len(videos) = MAX_CATALOG_SIZE =>
                       /\ Tail(videos') = SubSeq(videos, 1, MAX_CATALOG_SIZE - 1)
                       /\ videos[MAX_CATALOG_SIZE].filename \notin files'
            ELSE /\ sent'[k].msg.type = "video_deleted"
                 /\ RemovedById(sent'[k].msg.videoId)
                 /\ videos[FindIndex(videos, sent'[k].msg.videoId)].filename
                       \notin files']_vars

\* a video_deleted event sent for a record whose file was unlinked
BroadcastAfterMutationWitness ==
    /\ variant = "local" /\ request.op = "delete"
    /\ sent # <<>> /\ unlinked # <<>>
    /\ \A k \in DOMAIN sent : sent[k].msg = VideoDeletedEvent(request.id)

\* a step whose handler called broadcast: it answered 200, or a send threw
BroadcastStep ==
    /\ request'.op \in {"upload", "delete"}
    /\ response'.status = 200 \/ failed' # {}

\* C19: a broadcast calls send once (a send that throws counted) for each
\* registered socket that is OPEN and for no other socket, and removes no
\* socket from the registry: a
\* registered socket in another state stays registered until its own close
\* or error event.
BroadcastReachesExactlyOpen ==
    [][/\ BroadcastStep =>
            /\ \A c \in Channels :
                  Cardinality(SentTo(sent', c)) + (IF c \in failed' THEN 1 ELSE 0) =
                     (IF c \in Registered /\ readyState[c] = "OPEN" THEN 1 ELSE 0)
            /\ clients' = clients
       /\ \A c \in Registered :
             c \notin SeqToSet(clients') =>
                request'.op \in {"close", "error"} /\ request'.id = c]_vars

\* an upload of the local server that evicts: the handler ran with the
\* catalog at its cap
EvictingUploadStep == LocalHandlerStep /\ Len(videos) = MAX_CATALOG_SIZE

\* C20: local server: an upload that evicts the oldest record broadcasts
\* one event, the new_video of the inserted record (broadcast is called,
\* and no socket is sent two messages), and no video_deleted; a followed viewer whose
\* list agreed with GET /api/videos before, and who only applies the events it
\* is sent, then shows a list that differs from GET /api/videos.
EvictionIsSilent ==
    [][EvictingUploadStep =>
         /\ (\E c \in Registered : readyState[c] = "OPEN") =>
               (sent' # <<>> \/ failed' # {})
         /\ \A c \in Channels : Cardinality(SentTo(sent', c)) <= 1
         /\ \A k \in DOMAIN sent' :
               /\ sent'[k].msg.type # "video_deleted"
               /\ sent'[k].msg = NewVideoEvent(Head(videos'))
         /\ \A c \in Registered :
               (view[c].listed /\ view[c].ids = Ids(videos)) =>
                  view'[c].ids # Ids(videos')]_vars

\* the followed viewer after an evicting upload it was sent the event of
SilentEvictionSeen ==
    /\ variant = "local" /\ request.op = "upload" /\ response.status = 200
    /\ stored > MAX_CATALOG_SIZE
    /\ \E c \in Registered :
          /\ view[c].listed /\ SentTo(sent, c) # {}
          /\ Len(view[c].ids) = stored
          /\ view[c].ids # ListIds

====
